---- MODULE Spec2Model ----
(***************************************************************************)
(* A model of the express-mongo-sanitize middleware (src/index.js).        *)
(*                                                                         *)
(* JavaScript strings are sequences of one-character strings.  The         *)
(* characters of the model are a few stand-ins; the regular expressions    *)
(* of the source are modelled by what they match on these characters.      *)
(* A JavaScript value is a record [s |-> text, t |-> type, c |-> children]: *)
(* s holds the characters of a string (and the literal of a number or a    *)
(* boolean), c the entries [k |-> key, v |-> value] of a mapping in         *)
(* insertion order, or the elements of an array as entries with an empty   *)
(* key.                                                                    *)
(***************************************************************************)
EXTENDS Integers, Sequences, FiniteSets, TLC

VARIABLES
    opts,       \* the options record built by expressMongoSanitize(options)
    lastIndex,  \* lastIndex of each RegExp object of opts.patterns
    pc,         \* "setup": expressMongoSanitize(options) is about to run;
                \* "failed": it threw; "idle": no request in progress;
                \* "done": the middleware ran and called next; "sanitized":
                \* the route handler has called req.sanitize; "error": the
                \* middleware or req.sanitize threw
    input,      \* the request as it arrived (kept for comparison)
    req,        \* the request object the middleware works on
    nextCalls,  \* how often the middleware called next() for this request
    customOpts, \* the argument of the route handler's req.sanitize call
    rawOptions, \* the argument of expressMongoSanitize, as JavaScript values
    thrown,     \* the error thrown at setup or while a request was handled
    routes,     \* the layers of the Express application (app._router.stack)
    walk,       \* the local variables of a getAllRouteParams call
    hooks       \* the param callbacks registered on the app and on the router

vars == <<opts, lastIndex, pc, input, req, nextCalls, customOpts, rawOptions,
          thrown, routes, walk, hooks>>

-----------------------------------------------------------------------------
(* Characters and strings *)

\* The characters used are "a", "A", "$", ".", "@", " ", "{" and "}": "a"
\* stands for the lower-case letters and digits, "A" for the upper-case
\* letters; the other characters are themselves.  There is no double quote,
\* no square bracket and no line terminator among them.

\* \s of a regular expression, and what String.prototype.trim removes
Whitespace == {" ", "\t", "\n", "\r", "\f"}

RECURSIVE SeqsUpTo(_, _)
\* All sequences over S of length at most n.
SeqsUpTo(S, n) ==
    IF n = 0 THEN {<<>>}
    ELSE LET shorter == SeqsUpTo(S, n - 1)
         IN shorter \cup {Append(s, x) : s \in {t \in shorter : Len(t) = n - 1}, x \in S}

Max(a, b) == IF a > b THEN a ELSE b
Min(a, b) == IF a < b THEN a ELSE b

\* s.slice(from - 1, to) in 1-based, inclusive positions
Slice(s, from, to) == IF from > to THEN <<>> ELSE SubSeq(s, from, to)

-----------------------------------------------------------------------------
(* JavaScript values *)

Entry(key, val) == [k |-> key, v |-> val]

Undefined == [s |-> <<>>, t |-> "undefined", c |-> <<>>]
Null == [s |-> <<>>, t |-> "null", c |-> <<>>]
Bool(b) == [s |-> <<IF b THEN "true" ELSE "false">>, t |-> "bool", c |-> <<>>]
Num(n) == [s |-> <<ToString(n)>>, t |-> "num", c |-> <<>>]
S(chars) == [s |-> chars, t |-> "str", c |-> <<>>]
Obj(entries) == [s |-> <<>>, t |-> "obj", c |-> entries]

RECURSIVE AsEntries(_)
AsEntries(items) ==
    IF items = <<>> THEN <<>>
    ELSE <<Entry(<<>>, Head(items))>> \o AsEntries(Tail(items))

RECURSIVE AsItems(_)
AsItems(entries) ==
    IF entries = <<>> THEN <<>>
    ELSE <<Head(entries).v>> \o AsItems(Tail(entries))

\* The array of the given elements, and the elements of an array
Arr(items) == [s |-> <<>>, t |-> "arr", c |-> AsEntries(items)]
Items(arr) == AsItems(arr.c)

\* A function, and the RegExp /[chars]/g
Fn == [s |-> <<>>, t |-> "function", c |-> <<>>]
Re(chars) == [s |-> chars, t |-> "regexp", c |-> <<>>]

\* typeof value === 'function'
isFunction(value) == value.t = "function"

\* typeof value === 'string'
isString(value) == value.t = "str"

\* value == null || typeof value === 'boolean' || typeof value === 'number'
isPrimitive(value) == value.t \in {"undefined", "null", "bool", "num"}

isArray(value) == value.t = "arr"

isPlainObject(obj) == obj.t = "obj"

\* !Object.hasOwn(obj, Object.keys(obj)[0]): a mapping with no own key
isObjectEmpty(obj) == isPlainObject(obj) /\ Len(obj.c) = 0

\* JavaScript truthiness: null, false, 0 and '' are falsy, every array and
\* mapping is truthy
Truthy(value) ==
    CASE value.t \in {"undefined", "null"} -> FALSE
      [] value.t = "bool" -> value.s = <<"true">>
      [] value.t = "num" -> value.s # <<"0">>
      [] value.t = "str" -> Len(value.s) > 0
      [] OTHER -> TRUE

-----------------------------------------------------------------------------
(* isEmail: the RFC 5322 expression of src/index.js:59-64, case-insensitive *)

\* [a-z0-9!#$%&'*+/=?^_`{|}~-] on the alphabet
EmailAtomChars == {"a", "A", "$", "{", "}"}

\* [a-z0-9] on the alphabet (no "-" in the alphabet)
EmailLabelChars == {"a", "A"}

\* x is a non-empty run of groups of chars separated by single dots
DotSeparated(x, chars) ==
    /\ Len(x) > 0
    /\ \A j \in 1..Len(x) : x[j] \in chars \cup {"."}
    /\ x[1] # "." /\ x[Len(x)] # "."
    /\ \A j \in 1..(Len(x) - 1) : ~(x[j] = "." /\ x[j + 1] = ".")

\* atom(\.atom)* @ (label\.)+label ; the quoted local part and the bracketed
\* domain need characters that are not in the alphabet
EmailRegexTest(s) ==
    \E i \in 1..Len(s) :
        /\ s[i] = "@"
        /\ DotSeparated(Slice(s, 1, i - 1), EmailAtomChars)
        /\ DotSeparated(Slice(s, i + 1, Len(s)), EmailLabelChars)
        /\ \E j \in (i + 1)..Len(s) : s[j] = "."

isEmail(val) == isString(val) /\ EmailRegexTest(val.s)

-----------------------------------------------------------------------------
(* Regular expressions *)

\* A pattern that matches one character of a class, e.g. /[\$]/g
ClassPattern(chars) == [chars |-> chars, kind |-> "class", g |-> TRUE]

\* /\{\s*\$|\$?\{(.|\r?\n)*\}/g
TemplatePattern == [chars |-> {}, kind |-> "template", g |-> TRUE]

\* A patterns entry that is no RegExp object, e.g. the string '$': it has
\* no source and no test method
NotRegExp == [chars |-> {}, kind |-> "string", g |-> FALSE]

PATTERNS == <<
    ClassPattern({"$"}),
    ClassPattern({"."}),
    ClassPattern({"\\", "/", "{", "}", ".", "(", "*", "+", "?", "|", "[", "]", "^", ")"}),
    ClassPattern({"\t", "\n", "\r", "\f"}),
    TemplatePattern >>

\* (.|\r?\n)* matches s[from..to]: a carriage return needs a line feed after it
AnyRun(s, from, to) ==
    \A j \in from..to : (s[j] = "\r") => (j < to /\ s[j + 1] = "\n")

\* \{\s*\$ at position i: the length of the match, 0 when there is none
TemplateOpen(s, i) ==
    IF s[i] # "{" THEN 0
    ELSE LET rest == {j \in (i + 1)..Len(s) : s[j] \notin Whitespace}
         IN IF rest = {} THEN 0
            ELSE LET j == CHOOSE x \in rest : \A y \in rest : x <= y
                 IN IF s[j] = "$" THEN j - i + 1 ELSE 0

\* \$?\{(.|\r?\n)*\} at position i, greedy: up to the last closing brace
TemplateBlock(s, i) ==
    LET brace == IF s[i] = "$" /\ i < Len(s) /\ s[i + 1] = "{" THEN i + 1
                 ELSE IF s[i] = "{" THEN i ELSE 0
        closers == IF brace = 0 THEN {}
                   ELSE {j \in (brace + 1)..Len(s) :
                            s[j] = "}" /\ AnyRun(s, brace + 1, j - 1)}
    IN IF closers = {} THEN 0
       ELSE (CHOOSE x \in closers : \A y \in closers : x >= y) - i + 1

\* The length of the match of the RegExp p that starts at position i of s
\* (1-based), 0 when p does not match there.  No RegExp of the model matches
\* the empty string.
MatchAt(p, s, i) ==
    IF p.kind = "class" THEN (IF s[i] \in p.chars THEN 1 ELSE 0)
    ELSE IF TemplateOpen(s, i) > 0 THEN TemplateOpen(s, i)
    ELSE TemplateBlock(s, i)

\* RegExp.prototype.test(s) of a pattern whose lastIndex is li: the result and
\* the new lastIndex.  A global pattern searches from lastIndex, leaves it at
\* the end of the match, and resets it to 0 when nothing matches.
\* An entry that is no RegExp has no test method: the call throws a
\* TypeError, recorded as lastIndex -1.
RegExpTest(p, s, li) ==
    LET from == IF p.g THEN li + 1 ELSE 1
        hits == {i \in from..Len(s) : MatchAt(p, s, i) > 0}
    IN IF p.kind = "string" THEN [li |-> -1, hit |-> TRUE]
       ELSE IF hits = {} THEN [li |-> 0, hit |-> FALSE]
       ELSE LET i == CHOOSE x \in hits : \A y \in hits : x <= y
            IN [li |-> IF p.g THEN i - 1 + MatchAt(p, s, i) ELSE li, hit |-> TRUE]

RECURSIVE SomeTest(_, _, _, _)
\* The rest of some() after pattern n was tested with result r: stop at a
\* match, go on with pattern n + 1 otherwise
SomeNext(patterns, s, li, n, r) ==
    IF r.hit THEN [li |-> [li EXCEPT ![n] = r.li], hit |-> TRUE]
    ELSE SomeTest(patterns, s, [li EXCEPT ![n] = r.li], n + 1)

\* patterns.some((pattern) => pattern.test(s)) from pattern n on: whether one
\* matched, and the lastIndex of every pattern afterwards.  some() stops at
\* the first pattern that matches.
SomeTest(patterns, s, li, n) ==
    IF n > Len(patterns) THEN [li |-> li, hit |-> FALSE]
    ELSE SomeNext(patterns, s, li, n, RegExpTest(patterns[n], s, li[n]))

\* The source of an alternative of the combined pattern matches at position
\* i: the source of an entry that is no RegExp is undefined, which join()
\* turns into the empty alternative, and that matches everywhere
AlternativeMatches(p, s, i) ==
    p.kind = "string" \/ (i <= Len(s) /\ MatchAt(p, s, i) > 0)

\* The length of the match of the chosen alternative, 0 for the empty one
AlternativeLength(p, s, i) == IF p.kind = "string" THEN 0 ELSE MatchAt(p, s, i)

\* The length of the match at position i of the alternation
\* new RegExp(patterns.map(p => p.source).join('|'), 'g'): the first
\* alternative that matches there wins; -1 when none matches
CombinedMatchAt(patterns, s, i) ==
    LET hits == {n \in 1..Len(patterns) : AlternativeMatches(patterns[n], s, i)}
    IN IF hits = {} THEN -1
       ELSE AlternativeLength(patterns[CHOOSE x \in hits : \A y \in hits : x <= y], s, i)

RECURSIVE Expand(_, _, _)
\* The replacement string of String.prototype.replace from position i on:
\* "$$" inserts a dollar sign and "$&" the matched text; the other
\* replacement patterns need characters that are not in the alphabet
Expand(replaceWith, matched, i) ==
    IF i > Len(replaceWith) THEN <<>>
    ELSE IF replaceWith[i] = "$" /\ i < Len(replaceWith) /\ replaceWith[i + 1] = "$"
         THEN <<"$">> \o Expand(replaceWith, matched, i + 2)
    ELSE IF replaceWith[i] = "$" /\ i < Len(replaceWith) /\ replaceWith[i + 1] = "&"
         THEN matched \o Expand(replaceWith, matched, i + 2)
    ELSE <<replaceWith[i]>> \o Expand(replaceWith, matched, i + 1)

RECURSIVE ReplaceFrom(_, _, _, _)
\* The replacement at position i, where the alternation matches n characters
\* (-1: no match, the character is copied; 0: the empty match, the
\* replacement goes before the character), and the rest of the string
ReplaceAt(patterns, s, replaceWith, i, n) ==
    (IF n < 0 THEN <<s[i]>>
     ELSE IF n = 0 THEN Expand(replaceWith, <<>>, 1) \o <<s[i]>>
     ELSE Expand(replaceWith, Slice(s, i, i + n - 1), 1))
        \o ReplaceFrom(patterns, s, replaceWith, i + Max(n, 1))

\* str.replace(combinedPattern, replaceWith) from position i on; the empty
\* alternative also matches at the end of the string
ReplaceFrom(patterns, s, replaceWith, i) ==
    IF i > Len(s)
    THEN (IF CombinedMatchAt(patterns, s, i) = 0
          THEN Expand(replaceWith, <<>>, 1) ELSE <<>>)
    ELSE ReplaceAt(patterns, s, replaceWith, i, CombinedMatchAt(patterns, s, i))

RECURSIVE SequentialReplace(_, _, _, _)
\* patterns.reduce((acc, pattern) => acc.replace(pattern, replaceWith), str)
\* of the earlier sanitizeString, from pattern n on: one replace per
\* pattern, each on the result of the one before
SequentialReplace(patterns, s, replaceWith, n) ==
    IF n > Len(patterns) THEN s
    ELSE SequentialReplace(patterns,
                           ReplaceFrom(<<patterns[n]>>, s, replaceWith, 1),
                           replaceWith, n + 1)

-----------------------------------------------------------------------------
(* sanitizeString *)

\* String.prototype.trim
Trim(s) ==
    LET keep == {i \in 1..Len(s) : s[i] \notin Whitespace}
    IN IF keep = {} THEN <<>>
       ELSE Slice(s, CHOOSE x \in keep : \A y \in keep : x <= y,
                     CHOOSE x \in keep : \A y \in keep : x >= y)

RECURSIVE ToLowerCase(_)
\* String.prototype.toLowerCase
ToLowerCase(s) ==
    IF s = <<>> THEN <<>>
    ELSE <<IF Head(s) = "A" THEN "a" ELSE Head(s)>> \o ToLowerCase(Tail(s))

\* if (stringOptions.trim) result = result.trim()
TrimStep(s, options) == IF options.stringOptions.trim THEN Trim(s) ELSE s

\* A lowercase option that swaps the case of every letter
LowercaseStepSwap(s, options) ==
    IF options.stringOptions.lowercase
    THEN [i \in 1..Len(s) |-> IF s[i] = "a" THEN "A"
                              ELSE IF s[i] = "A" THEN "a" ELSE s[i]]
    ELSE s

\* if (stringOptions.lowercase) result = result.toLowerCase()
LowercaseStep(s, options) ==
    IF options.stringOptions.lowercase THEN ToLowerCase(s) ELSE s

\* A truncation that is applied to mapping keys as well as to values
MaxLengthStepKeys(s, options, isValue) ==
    IF options.stringOptions.maxLength # 0
    THEN Slice(s, 1, Min(Len(s), options.stringOptions.maxLength))
    ELSE s

\* if (stringOptions.maxLength && isValue) result = result.slice(0, maxLength);
\* maxLength 0 stands for null
MaxLengthStep(s, options, isValue) ==
    IF options.stringOptions.maxLength # 0 /\ isValue
    THEN Slice(s, 1, Min(Len(s), options.stringOptions.maxLength))
    ELSE s

\* str.replace(combinedPattern, replaceWith)
ReplaceStep(s, options) == ReplaceFrom(options.patterns, s, options.replaceWith, 1)

\* A sanitizeString that truncates to maxLength before it replaces and trims
sanitizeStringCutFirst(str, options, isValue) ==
    IF ~isString(str) \/ isEmail(str) THEN str
    ELSE S(LowercaseStep(
             TrimStep(ReplaceStep(MaxLengthStep(str.s, options, isValue), options),
                      options),
             options))

\* sanitizeString(str, options, isValue)
sanitizeString(str, options, isValue) ==
    IF ~isString(str) \/ isEmail(str) THEN str
    ELSE S(MaxLengthStep(
             LowercaseStep(TrimStep(ReplaceStep(str.s, options), options), options),
             options, isValue))

-----------------------------------------------------------------------------
(* sanitizeValue, sanitizeArray, sanitizeObject.  Each returns the sanitized *)
(* value v together with the lastIndex li of the patterns afterwards, since  *)
(* sanitizeObject calls pattern.test on the RegExp objects of the options.   *)

\* Whether the mapping has an entry with this key
HasKey(entries, key) == \E i \in 1..Len(entries) : entries[i].k = key

RECURSIVE Replace(_, _, _)
\* The entries with the value of the entry of this key replaced
Replace(entries, key, val) ==
    IF entries = <<>> THEN <<>>
    ELSE <<IF Head(entries).k = key THEN Entry(key, val) ELSE Head(entries)>>
             \o Replace(Tail(entries), key, val)

\* acc[key] = val where the first value of a key stays
PutFirst(entries, key, val) ==
    IF HasKey(entries, key) THEN entries
    ELSE Append(entries, Entry(key, val))

\* acc[key] = val: an existing key keeps its place, a new key goes last
Put(entries, key, val) ==
    IF HasKey(entries, key) THEN Replace(entries, key, val)
    ELSE Append(entries, Entry(key, val))

\* SameValueZero of two values: strings, numbers, booleans and null by
\* value; two arrays or mappings are the same only if they are one object,
\* and every array or mapping of a sanitized result is a new object
SameValueZero(a, b) ==
    /\ a.t = b.t
    /\ a.t \in {"undefined", "null", "bool", "num", "str"}
    /\ a.s = b.s

RECURSIVE SetOrder(_, _)
\* [...new Set(items)] from position i on: the first occurrence of each value
SetOrder(items, i) ==
    IF i > Len(items) THEN <<>>
    ELSE IF \E j \in 1..(i - 1) : SameValueZero(items[j], items[i])
         THEN SetOrder(items, i + 1)
         ELSE <<items[i]>> \o SetOrder(items, i + 1)

RECURSIVE sanitizeValue(_, _, _, _)
RECURSIVE MapItems(_, _, _, _)
RECURSIVE ReduceEntries(_, _, _, _)

\* The mapped items so far with one more sanitized item r
Collect(st, r) == [v |-> Append(st.v, r.v), li |-> r.li]

\* arr.map((item) => sanitizeValue(item, options, true)) from item i on; st
\* holds the items mapped so far and the lastIndex
MapItems(items, options, st, i) ==
    IF i > Len(items) THEN st
    ELSE MapItems(items, options,
                  Collect(st, sanitizeValue(items[i], options, TRUE, st.li)), i + 1)

\* result.filter(Boolean)
FilterBoolean(items) == SelectSeq(items, Truthy)

\* [...new Set(result)]
Distinct(items) == SetOrder(items, 1)

\* if (arrayOptions.filterNull) result = result.filter(Boolean)
FilterNullStep(items, options) ==
    IF options.arrayOptions.filterNull THEN FilterBoolean(items) ELSE items

\* if (arrayOptions.distinct) result = [...new Set(result)]
DistinctStep(items, options) ==
    IF options.arrayOptions.distinct THEN Distinct(items) ELSE items

\* A sanitizeArray that removes the duplicates before it sanitizes the items
sanitizeArrayDistinctFirst(arr, options, li) ==
    [MapItems(DistinctStep(Items(arr), options), options, [v |-> <<>>, li |-> li], 1)
        EXCEPT !.v = Arr(FilterNullStep(@, options))]

sanitizeArray(arr, options, li) ==
    [MapItems(Items(arr), options, [v |-> <<>>, li |-> li], 1)
        EXCEPT !.v = Arr(DistinctStep(FilterNullStep(@, options), options))]

\* A key policy that also drops every key that begins with the sigil
KeyRejectedSigil(key, options) ==
    \/ (options.allowedKeys # {} /\ key \notin options.allowedKeys)
    \/ key \in options.deniedKeys
    \/ (key # <<>> /\ Head(key) = "$")

\* A key policy that looks the sanitized key up in allowedKeys
KeyRejectedSanitized(key, options) ==
    \/ (options.allowedKeys # {}
           /\ sanitizeString(S(key), options, FALSE).s \notin options.allowedKeys)
    \/ key \in options.deniedKeys

\* A key policy in which allowedKeys, when given, decides alone
KeyRejectedAllowWins(key, options) ==
    IF options.allowedKeys # {} THEN key \notin options.allowedKeys
    ELSE key \in options.deniedKeys

\* A pattern.test or has call threw while the lastIndex values li were produced
Threw(li) == \E n \in DOMAIN li : li[n] < 0

\* The key list f of the options is an Array and no Set: only a list that
\* finalOpts took from customOpts is
IsArray(options, f) == "arrays" \in DOMAIN options /\ f \in options.arrays

\* allowedKeys.size && !allowedKeys.has(key): an Array has no size, so the
\* test is false for an allowedKeys that is an Array and no Set
NotAllowed(key, options) ==
    /\ ~IsArray(options, "allowedKeys")
    /\ options.allowedKeys # {}
    /\ key \notin options.allowedKeys

\* deniedKeys.has(key) is evaluated for a deniedKeys that is an Array and no
\* Set: has is not a function, the call throws a TypeError
HasThrows(key, options) ==
    IsArray(options, "deniedKeys") /\ ~NotAllowed(key, options)

\* The lastIndex values li at the moment deniedKeys.has threw, recorded
\* below -1; LastIndexLeft reads them back
HasThrew(li) == [n \in DOMAIN li |-> -2 - li[n]]

\* The lastIndex values the RegExp objects keep when the call that produced
\* li threw: a string pattern has none
LastIndexLeft(li) ==
    [n \in DOMAIN li |-> IF li[n] < -1 THEN -2 - li[n] ELSE Max(li[n], 0)]

\* (allowedKeys.size && !allowedKeys.has(key)) || deniedKeys.has(key)
KeyRejected(key, options) ==
    \/ NotAllowed(key, options)
    \/ key \in options.deniedKeys

\* isEmail(val) && deniedKeys.has(key)
EmailExempt(key, val, options) == isEmail(val) /\ key \in options.deniedKeys

\* !removeEmpty || sanitizedValue
KeepsValue(sanitizedValue, options) ==
    ~options.removeEmpty \/ Truthy(sanitizedValue)

\* if (!removeEmpty || sanitizedValue) acc[sanitizedKey] = sanitizedValue
StoreEntry(acc, sanitizedKey, sanitized, options) ==
    IF KeepsValue(sanitized.v, options)
    THEN [v |-> Put(acc, sanitizedKey, sanitized.v), li |-> sanitized.li]
    ELSE [v |-> acc, li |-> sanitized.li]

\* if (removeMatches && isString(val) && patterns.some(...)) return acc,
\* then the value is sanitized and stored
AfterValueTest(acc, sanitizedKey, val, options, valTest) ==
    IF valTest.hit THEN [v |-> acc, li |-> valTest.li]
    ELSE StoreEntry(acc, sanitizedKey,
                    sanitizeValue(val, options, TRUE, valTest.li), options)

\* removeMatches && isString(val) && patterns.some((p) => p.test(val))
ValueTest(val, options, li) ==
    IF options.removeMatches /\ isString(val)
    THEN SomeTest(options.patterns, val.s, li, 1)
    ELSE [li |-> li, hit |-> FALSE]

\* The reduce step after the key was tested: the key that matched, the key
\* that sanitized to nothing, the email branch, then the value
AfterKeyTest(acc, key, sanitizedKey, val, options, keyTest) ==
    IF keyTest.hit THEN [v |-> acc, li |-> keyTest.li]
    ELSE IF options.removeEmpty /\ sanitizedKey = <<>>
    THEN [v |-> acc, li |-> keyTest.li]
    ELSE IF EmailExempt(key, val, options)
    THEN [v |-> Put(acc, sanitizedKey, val), li |-> keyTest.li]
    ELSE AfterValueTest(acc, sanitizedKey, val, options,
                        ValueTest(val, options, keyTest.li))

\* removeMatches && patterns.some((pattern) => pattern.test(key))
KeyTest(key, options, li) ==
    IF options.removeMatches
    THEN SomeTest(options.patterns, key, li, 1)
    ELSE [li |-> li, hit |-> FALSE]

\* One step of the reduce of sanitizeObject: the accumulator and the
\* lastIndex after the entry (key, val)
ReduceStep(acc, key, val, options, li) ==
    IF HasThrows(key, options)
    THEN [v |-> acc, li |-> IF Threw(li) THEN li ELSE HasThrew(li)]
    ELSE IF KeyRejected(key, options)
    THEN [v |-> acc, li |-> li]
    ELSE AfterKeyTest(acc, key, sanitizeString(S(key), options, FALSE).s,
                      val, options, KeyTest(key, options, li))

\* Object.entries(obj).reduce(..., {}) from entry i on; st holds the
\* accumulator and the lastIndex; an exception ends the reduce
ReduceEntries(entries, options, st, i) ==
    IF i > Len(entries) \/ Threw(st.li) THEN st
    ELSE ReduceEntries(entries, options,
             ReduceStep(st.v, entries[i].k, entries[i].v, options, st.li), i + 1)

sanitizeObject(obj, options, li) ==
    [ReduceEntries(obj.c, options, [v |-> <<>>, li |-> li], 1) EXCEPT !.v = Obj(@)]

sanitizeValue(value, options, isValue, li) ==
    IF ~Truthy(value) \/ isPrimitive(value) THEN [v |-> value, li |-> li]
    ELSE IF isArray(value) THEN sanitizeArray(value, options, li)
    ELSE IF isPlainObject(value) THEN sanitizeObject(value, options, li)
    ELSE [v |-> sanitizeString(value, options, isValue), li |-> li]

-----------------------------------------------------------------------------
(* Options *)

DEFAULT_OPTIONS == [
    patterns |-> PATTERNS,
    replaceWith |-> <<>>,
    stringOptions |-> [trim |-> FALSE, lowercase |-> FALSE, maxLength |-> 0],
    arrayOptions |-> [filterNull |-> FALSE, distinct |-> FALSE],
    allowedKeys |-> {},
    deniedKeys |-> {},
    removeEmpty |-> FALSE,
    removeMatches |-> FALSE,
    app |-> "null",
    router |-> "null",
    sanitizeObjects |-> <<"body", "params", "query">>,
    mode |-> "auto",
    skipRoutes |-> {},
    customSanitizer |-> "null",
    recursive |-> TRUE ]

\* options.x of the user's options over the default: { ...DEFAULT_OPTIONS,
\* ...options }
Opt(options, f) ==
    IF f \in DOMAIN options THEN options[f] ELSE DEFAULT_OPTIONS[f]

\* The opts record of expressMongoSanitize(options): the user's options over
\* the defaults; skipRoutes, allowedKeys and deniedKeys become sets
expressMongoSanitize(options) == [
    patterns |-> Opt(options, "patterns"),
    replaceWith |-> Opt(options, "replaceWith"),
    stringOptions |-> Opt(options, "stringOptions"),
    arrayOptions |-> Opt(options, "arrayOptions"),
    allowedKeys |-> Opt(options, "allowedKeys"),
    deniedKeys |-> Opt(options, "deniedKeys"),
    removeEmpty |-> Opt(options, "removeEmpty"),
    removeMatches |-> Opt(options, "removeMatches"),
    app |-> Opt(options, "app"),
    router |-> Opt(options, "router"),
    sanitizeObjects |-> Opt(options, "sanitizeObjects"),
    mode |-> Opt(options, "mode"),
    skipRoutes |-> Opt(options, "skipRoutes"),
    customSanitizer |-> Opt(options, "customSanitizer"),
    recursive |-> Opt(options, "recursive") ]

-----------------------------------------------------------------------------
(* validateOptions and the construction of the middleware.  The options the *)
(* caller passes are JavaScript values; a word such as 'auto' or 'body' is   *)
(* kept in one piece, as a string of one element.                            *)

\* DEFAULT_OPTIONS as JavaScript values, for validateOptions: of the five
\* RegExp objects of PATTERNS and of the two option objects only the type
\* is kept
DefaultValues == [
    app |-> Null,
    router |-> Null,
    routerBasePath |-> S(<<"api">>),
    replaceWith |-> S(<<>>),
    removeMatches |-> Bool(FALSE),
    sanitizeObjects |-> Arr(<<S(<<"body">>), S(<<"params">>), S(<<"query">>)>>),
    mode |-> S(<<"auto">>),
    skipRoutes |-> Arr(<<>>),
    customSanitizer |-> Null,
    recursive |-> Bool(TRUE),
    removeEmpty |-> Bool(FALSE),
    patterns |-> Arr(<<Re(<<>>), Re(<<>>), Re(<<>>), Re(<<>>), Re(<<>>)>>),
    allowedKeys |-> Arr(<<>>),
    deniedKeys |-> Arr(<<>>),
    stringOptions |-> Obj(<<>>),
    arrayOptions |-> Obj(<<>>) ]

\* const userOpts = { ...DEFAULT_OPTIONS, ...options }
UserOpts(options) ==
    [f \in DOMAIN DefaultValues |->
        IF f \in DOMAIN options THEN options[f] ELSE DefaultValues[f]]

\* The keys of the validators object, in its order
ValidatorKeys == <<
    "app", "router", "routerBasePath", "replaceWith", "removeMatches",
    "sanitizeObjects", "mode", "skipRoutes", "customSanitizer", "recursive",
    "removeEmpty", "patterns", "allowedKeys", "deniedKeys", "stringOptions",
    "arrayOptions" >>

\* validators[key](value)
Validates(key, value) ==
    CASE key \in {"app", "router"} -> ~Truthy(value) \/ isFunction(value)
      [] key \in {"routerBasePath", "replaceWith"} -> isString(value)
      [] key \in {"removeMatches", "recursive", "removeEmpty"} -> isPrimitive(value)
      [] key \in {"sanitizeObjects", "skipRoutes", "patterns"} -> isArray(value)
      [] key = "mode" -> value \in {S(<<"auto">>), S(<<"manual">>)}
      [] key = "customSanitizer" -> value = Null \/ isFunction(value)
      [] key \in {"allowedKeys", "deniedKeys"} -> value = Null \/ isArray(value)
      [] OTHER -> isPlainObject(value)

\* validateOptions(userOpts): the key of the first validator that fails, ""
\* when the options pass
validateOptions(userOpts) ==
    LET bad == {i \in 1..Len(ValidatorKeys) :
                   ~Validates(ValidatorKeys[i], userOpts[ValidatorKeys[i]])}
    IN IF bad = {} THEN ""
       ELSE ValidatorKeys[CHOOSE i \in bad : \A j \in bad : i <= j]

\* The value of a validated option as the sanitizer uses it: the boolean
\* options by their truthiness, skipRoutes as new Set(options.skipRoutes), a
\* patterns entry as the RegExp it is or as an entry that is none
FromJs(key, value) ==
    CASE key = "replaceWith" -> value.s
      [] key \in {"removeMatches", "recursive", "removeEmpty"} -> Truthy(value)
      [] key = "mode" -> value.s[1]
      [] key = "sanitizeObjects" -> [i \in 1..Len(value.c) |-> value.c[i].v.s[1]]
      [] key = "skipRoutes" -> {value.c[i].v.s : i \in 1..Len(value.c)}
      [] key = "customSanitizer" -> IF value = Null THEN "null" ELSE "function"
      [] key = "patterns" ->
             [i \in 1..Len(value.c) |->
                 IF value.c[i].v.t = "regexp"
                 THEN ClassPattern({value.c[i].v.s[j] : j \in 1..Len(value.c[i].v.s)})
                 ELSE NotRegExp]

\* The options of the caller as the sanitizer uses them
Typed(options) == [f \in DOMAIN options |-> FromJs(f, options[f])]

-----------------------------------------------------------------------------
(* handleRequest *)

\* The key of array index i (0-based) in Object.assign({}, array)
IndexKey(i) == <<CHOOSE d \in {"0", "1", "2", "3", "4", "5", "6", "7", "8", "9"} :
                    d = ToString(i)>>

\* Object.assign({}, requestObject): the own enumerable properties of the
\* section, copied into a new mapping
ObjectAssign(value) ==
    IF isPlainObject(value) THEN value
    ELSE IF isArray(value)
         THEN Obj([i \in 1..Len(value.c) |-> Entry(IndexKey(i - 1), value.c[i].v)])
    ELSE IF isString(value)
         THEN Obj([i \in 1..Len(value.s) |-> Entry(IndexKey(i - 1), S(<<value.s[i]>>))])
    ELSE Obj(<<>>)

SAFE == S(<<"S", "A", "F", "E">>)

\* The customSanitizer of the test suite (src/test/index.test.js:370-387) on
\* a mapping: strings become 'SAFE', arrays become arrays of 'SAFE'
CustomSanitizer(data) ==
    Obj([i \in 1..Len(data.c) |->
        Entry(data.c[i].k,
              IF isArray(data.c[i].v)
              THEN Arr([j \in 1..Len(data.c[i].v.c) |-> SAFE])
              ELSE IF isString(data.c[i].v) THEN SAFE
              ELSE data.c[i].v)])

\* The default sanitizer applied to what the customSanitizer returned
SanitizeSectionTwice(originalRequest, options, li) ==
    sanitizeValue(IF options.customSanitizer # "null"
                  THEN CustomSanitizer(originalRequest) ELSE originalRequest,
                  options, FALSE, li)

\* options.customSanitizer ? customSanitizer(originalRequest)
\*                          : sanitizeValue(originalRequest, options)
SanitizeSection(originalRequest, options, li) ==
    IF options.customSanitizer # "null"
    THEN [v |-> CustomSanitizer(originalRequest), li |-> li]
    ELSE sanitizeValue(originalRequest, options, FALSE, li)

\* request[sanitizeObject] = sanitized, which an exception prevents
StoreSection(request, name, sanitized) ==
    IF Threw(sanitized.li) THEN [req |-> request, li |-> sanitized.li]
    ELSE [req |-> [request EXCEPT ![name] = sanitized.v, !.assigned = @ \cup {name}],
          li |-> sanitized.li]

\* The body of the reduce of handleRequest for one section of the request
HandleSection(request, options, li, name) ==
    IF Truthy(request[name]) /\ ~isObjectEmpty(request[name])
    THEN StoreSection(request, name,
                      SanitizeSection(ObjectAssign(request[name]), options, li))
    ELSE [req |-> request, li |-> li]

RECURSIVE handleSections(_, _, _)
\* The reduce of handleRequest over options.sanitizeObjects from section n on;
\* st holds the request and the lastIndex of the patterns
handleSections(st, options, n) ==
    IF n > Len(options.sanitizeObjects) \/ Threw(st.li) THEN st
    ELSE handleSections(
             HandleSection(st.req, options, st.li, options.sanitizeObjects[n]),
             options, n + 1)

handleRequest(request, options, li) ==
    handleSections([req |-> request, li |-> li], options, 1)

-----------------------------------------------------------------------------
(* getAllRouteParams.  A layer of a router stack is an object: the stacks   *)
(* hold the names of the layers, routes.layers gives the layer of a name.   *)
(* A router layer holds the stack of its handle, so two layers that mount   *)
(* the same router hold the same stack.                                     *)

\* A layer with a route, a layer that mounts a router, any other middleware
RouteLayer(path) == [kind |-> "route", path |-> path, regexp |-> <<>>, stack |-> <<>>]
RouterLayer(regexp, stack) ==
    [kind |-> "router", path |-> <<>>, regexp |-> regexp, stack |-> stack]
OtherLayer == [kind |-> "other", path |-> <<>>, regexp |-> <<>>, stack |-> <<>>]

RECURSIVE ExecParams(_, _)
\* The names that paramRegex.exec finds in routePath from position i on:
\* /:([^/]+)/g, a colon and the characters up to the next slash
ExecParams(routePath, i) ==
    LET colons == {j \in i..(Len(routePath) - 1) :
                      routePath[j] = ":" /\ routePath[j + 1] # "/"}
        j == CHOOSE x \in colons : \A y \in colons : x <= y
        slashes == {k \in (j + 1)..Len(routePath) : routePath[k] = "/"}
        end == IF slashes = {} THEN Len(routePath)
               ELSE (CHOOSE x \in slashes : \A y \in slashes : x <= y) - 1
    IN IF colons = {} THEN <<>>
       ELSE <<S(SubSeq(routePath, j + 1, end))>> \o ExecParams(routePath, end + 1)

\* uniqueParams.add(value)
SetAdd(set, value) ==
    IF \E i \in 1..Len(set) : SameValueZero(set[i], value) THEN set
    ELSE Append(set, value)

RECURSIVE SetAddAll(_, _)
\* uniqueParams.add(paramMatch[1]) for each match
SetAddAll(set, values) ==
    IF values = <<>> THEN set
    ELSE SetAddAll(SetAdd(set, Head(values)), Tail(values))

\* The first argument of add(...cachedPath): the first element of the
\* array, undefined when the array is empty
SpreadFirst(cachedPath) ==
    IF Len(cachedPath.c) = 0 THEN Undefined ELSE cachedPath.c[1].v

\* /^\/\^\\\/\?((?:[^\\]|\\.)*)\\\/\?\$\/$/ : the text of the layer's regexp is
\* /^\/? , then characters each of which is escaped or no backslash, then
\* \/?$/
MountPrefix == <<"/", "^", "\\", "/", "?">>
MountSuffix == <<"\\", "/", "?", "$", "/">>

RECURSIVE Escaped(_)
\* (?:[^\\]|\\.)* matches the whole of the text
Escaped(text) ==
    IF text = <<>> THEN TRUE
    ELSE IF Head(text) = "\\" THEN Len(text) >= 2 /\ Escaped(Tail(Tail(text)))
    ELSE Escaped(Tail(text))

RECURSIVE Unescape(_)
\* match[1].replace(/\\\//g, '/')
Unescape(text) ==
    IF text = <<>> THEN <<>>
    ELSE IF Len(text) >= 2 /\ text[1] = "\\" /\ text[2] = "/"
         THEN <<"/">> \o Unescape(Tail(Tail(text)))
    ELSE <<Head(text)>> \o Unescape(Tail(text))

\* newBasePath of a router layer
NewBasePath(regexp) ==
    IF /\ Len(regexp) >= Len(MountPrefix) + Len(MountSuffix)
       /\ SubSeq(regexp, 1, Len(MountPrefix)) = MountPrefix
       /\ SubSeq(regexp, Len(regexp) - Len(MountSuffix) + 1, Len(regexp)) = MountSuffix
       /\ Escaped(SubSeq(regexp, Len(MountPrefix) + 1, Len(regexp) - Len(MountSuffix)))
    THEN Unescape(SubSeq(regexp, Len(MountPrefix) + 1, Len(regexp) - Len(MountSuffix)))
    ELSE <<>>

\* A loop body that does not look into the cache before it walks a layer
VisitLayerAgain(st, id, middleware, basePath) ==
    IF middleware.kind = "route"
    THEN [st EXCEPT !.uniqueParams =
                        SetAddAll(@, ExecParams(basePath \o middleware.path, 1)),
                    !.cache =
                        Put(@, id, Arr(ExecParams(basePath \o middleware.path, 1)))]
    ELSE IF middleware.kind = "router"
    THEN [st EXCEPT !.pathStack =
                        Append(@, [basePath |-> basePath \o NewBasePath(middleware.regexp),
                                   currentStack |-> middleware.stack]),
                    !.cache = Put(@, id, Null)]
    ELSE st

\* The body of the for loop for the layer named id
VisitLayer(st, id, middleware, basePath) ==
    IF HasKey(st.cache, id)
    THEN (IF \E i \in 1..Len(st.cache) :
                 st.cache[i].k = id /\ Truthy(st.cache[i].v)
          THEN [st EXCEPT !.uniqueParams =
                   SetAdd(@, SpreadFirst(
                       st.cache[CHOOSE i \in 1..Len(st.cache) : st.cache[i].k = id].v))]
          ELSE st)
    ELSE IF middleware.kind = "route"
    THEN [st EXCEPT !.uniqueParams =
                        SetAddAll(@, ExecParams(basePath \o middleware.path, 1)),
                    !.cache =
                        Put(@, id, Arr(ExecParams(basePath \o middleware.path, 1)))]
    ELSE IF middleware.kind = "router"
    THEN [st EXCEPT !.pathStack =
                        Append(@, [basePath |-> basePath \o NewBasePath(middleware.regexp),
                                   currentStack |-> middleware.stack]),
                    !.cache = Put(@, id, Null)]
    ELSE st

RECURSIVE ForLayers(_, _, _, _, _)
\* for (let i = 0; i < currentStack.length; i++) { ... } from layer i on
ForLayers(st, layers, currentStack, basePath, i) ==
    IF i > Len(currentStack) THEN st
    ELSE ForLayers(VisitLayer(st, currentStack[i], layers[currentStack[i]], basePath),
                   layers, currentStack, basePath, i + 1)

\* An application without layers
NoRoutes == [stack |-> <<>>, layers |-> <<>>]

\* No getAllRouteParams call in progress
NoWalk == [uniqueParams |-> <<>>, cache |-> <<>>, pathStack |-> <<>>,
           result |-> <<>>, returned |-> FALSE]

\* getAllRouteParams(stack, basePath) before its while loop
StartWalk(stack, basePath) ==
    [uniqueParams |-> <<>>, cache |-> <<>>,
     pathStack |-> <<[basePath |-> basePath, currentStack |-> stack]>>,
     result |-> <<>>, returned |-> FALSE]

RECURSIVE getAllRouteParams(_, _)
\* The while loop of getAllRouteParams from the state w on, and the array
\* it returns
getAllRouteParams(w, layers) ==
    IF Len(w.pathStack) = 0 THEN w.uniqueParams
    ELSE getAllRouteParams(
             ForLayers([w EXCEPT !.pathStack = SubSeq(@, 1, Len(@) - 1)], layers,
                       w.pathStack[Len(w.pathStack)].currentStack,
                       w.pathStack[Len(w.pathStack)].basePath, 1),
             layers)

\* One turn of while (pathStack.length > 0): the last entry is popped and
\* its stack walked
WalkStack ==
    /\ ~walk.returned
    /\ Len(walk.pathStack) > 0
    /\ walk' = ForLayers(
           [walk EXCEPT !.pathStack = SubSeq(@, 1, Len(@) - 1)],
           routes.layers,
           walk.pathStack[Len(walk.pathStack)].currentStack,
           walk.pathStack[Len(walk.pathStack)].basePath, 1)
    /\ UNCHANGED <<opts, lastIndex, pc, input, req, nextCalls, customOpts,
                   rawOptions, thrown, routes, hooks>>

\* return [...uniqueParams]
ReturnParams ==
    /\ ~walk.returned
    /\ Len(walk.pathStack) = 0
    /\ walk' = [walk EXCEPT !.result = walk.uniqueParams, !.returned = TRUE]
    /\ UNCHANGED <<opts, lastIndex, pc, input, req, nextCalls, customOpts,
                   rawOptions, thrown, routes, hooks>>

-----------------------------------------------------------------------------
(* The middleware *)

NoError == [key |-> "", value |-> Undefined, type |-> "none"]

\* TypeError: pattern.test is not a function, or deniedKeys.has is not a
\* function
TypeError(li) ==
    [key |-> IF \E n \in DOMAIN li : li[n] < -1 THEN "has" ELSE "test",
     value |-> Undefined, type |-> "TypeError"]

\* No request; assigned holds the sections of a request that the middleware
\* has assigned a new object to
NoRequest == [assigned |-> {}, url |-> <<>>, body |-> Undefined, params |-> Undefined,
              query |-> Undefined, sanitize |-> FALSE]

\* A POST request with a JSON body, as express.json() hands it on
Post(url, body) == [assigned |-> {}, url |-> url, body |-> body, params |-> Obj(<<>>),
                    query |-> Obj(<<>>), sanitize |-> FALSE]

\* A GET request with a query string, as the query parser hands it on
Get(url, query) == [assigned |-> {}, url |-> url, body |-> Undefined, params |-> Obj(<<>>),
                    query |-> query, sanitize |-> FALSE]

\* No argument (customOpts is undefined), or an argument without fields
NoOptions == [f \in {} |-> FALSE]

\* (customOpts.f of { ...opts, ...customOpts })
Over(options, custom, f) == IF f \in DOMAIN custom THEN custom[f] ELSE options[f]

\* The keys of an allowedKeys or deniedKeys of finalOpts: those of the Array
\* of customOpts, or those of the Set of opts
OverKeys(options, custom, f) ==
    IF f \in DOMAIN custom THEN {custom[f][i] : i \in 1..Len(custom[f])}
    ELSE options[f]

\* const finalOpts = { ...opts, ...customOpts }: a key list of customOpts
\* is taken as it is, an Array; the field arrays names these lists
FinalOpts(options, custom) == [
    patterns |-> Over(options, custom, "patterns"),
    replaceWith |-> Over(options, custom, "replaceWith"),
    stringOptions |-> Over(options, custom, "stringOptions"),
    arrayOptions |-> Over(options, custom, "arrayOptions"),
    allowedKeys |-> OverKeys(options, custom, "allowedKeys"),
    deniedKeys |-> OverKeys(options, custom, "deniedKeys"),
    removeEmpty |-> Over(options, custom, "removeEmpty"),
    removeMatches |-> Over(options, custom, "removeMatches"),
    app |-> Over(options, custom, "app"),
    router |-> Over(options, custom, "router"),
    sanitizeObjects |-> Over(options, custom, "sanitizeObjects"),
    mode |-> Over(options, custom, "mode"),
    skipRoutes |-> Over(options, custom, "skipRoutes"),
    customSanitizer |-> Over(options, custom, "customSanitizer"),
    recursive |-> Over(options, custom, "recursive"),
    arrays |-> {"allowedKeys", "deniedKeys"} \cap DOMAIN custom ]

\* What the middleware leaves in the request and in the RegExp objects
Handled(request) ==
    IF request.url \in opts.skipRoutes
    THEN [req |-> request, li |-> lastIndex]
    ELSE IF opts.mode = "auto"
    THEN handleRequest(request, opts, lastIndex)
    ELSE [req |-> [request EXCEPT !.sanitize = TRUE], li |-> lastIndex]

\* The request and the patterns after handleRequest ran: it returned, the
\* caller goes on to the state after and next has been called calls times;
\* or it threw and the error goes to the error handling of Express
Deliver(handled, after, calls) ==
    /\ req' = handled.req
    /\ IF Threw(handled.li)
       THEN /\ lastIndex' = LastIndexLeft(handled.li)
            /\ thrown' = TypeError(handled.li)
            /\ pc' = "error"
            /\ UNCHANGED nextCalls
       ELSE /\ lastIndex' = handled.li
            /\ thrown' = NoError
            /\ pc' = after
            /\ nextCalls' = calls

\* validateOptions threw for this key: no middleware is returned
SetupFails(key) ==
    /\ pc' = "failed"
    /\ thrown' = [key |-> key, value |-> UserOpts(rawOptions)[key],
                  type |-> "type_error"]
    /\ UNCHANGED <<opts, lastIndex>>

\* The middleware is returned, with its opts and the RegExp objects unused
SetupReturns(built) ==
    /\ pc' = "idle"
    /\ opts' = built
    /\ lastIndex' = [n \in 1..Len(built.patterns) |-> 0]
    /\ UNCHANGED thrown

\* expressMongoSanitize(options)
Construct ==
    /\ pc = "setup"
    /\ IF validateOptions(UserOpts(rawOptions)) # ""
       THEN SetupFails(validateOptions(UserOpts(rawOptions)))
       ELSE SetupReturns(expressMongoSanitize(Typed(rawOptions)))
    /\ UNCHANGED <<input, req, nextCalls, customOpts, rawOptions, routes, walk,
                   hooks>>

\* No param callback is registered
NoHooks == [app |-> <<>>, router |-> <<>>]

\* The param callbacks after app.param(allRouteParams, ...) and the
\* router.param(param, ...) of every popped param: one more callback per
\* element of the array getAllRouteParams returned
Registered(params) ==
    [app |-> IF opts.app # "null" THEN hooks.app \o params ELSE hooks.app,
     router |-> IF opts.router # "null"
                THEN hooks.router \o [i \in 1..Len(params) |-> params[Len(params) + 1 - i]]
                ELSE hooks.router]

\* app._router of an app that is null: the middleware throws a TypeError
\* before it handles the request
NoRouterOfNull ==
    /\ req' = input'
    /\ pc' = "error"
    /\ thrown' = [key |-> "_router", value |-> Null, type |-> "TypeError"]
    /\ UNCHANGED <<lastIndex, nextCalls, hooks>>

\* (req, res, next) => { ... } of expressMongoSanitize
Middleware(request) ==
    /\ pc = "idle"
    /\ input' = request
    /\ IF request.url \in opts.skipRoutes
       THEN Deliver(Handled(request), "done", 1) /\ UNCHANGED hooks
       ELSE IF opts.router # "null" /\ opts.app = "null"
       THEN NoRouterOfNull
       ELSE /\ hooks' = Registered(getAllRouteParams(
                             StartWalk(routes.stack, DefaultValues.routerBasePath.s),
                             routes.layers))
            /\ Deliver(Handled(request), "done", 1)
    /\ customOpts' = NoOptions
    /\ UNCHANGED <<opts, rawOptions, routes, walk>>

\* A req.sanitize that ignores its argument
SanitizedBase(custom) == handleRequest(req, opts, lastIndex)

\* handleRequest(req, finalOpts) of req.sanitize
Sanitized(custom) == handleRequest(req, FinalOpts(opts, custom), lastIndex)

\* The route handler calls req.sanitize(customOpts), which the middleware
\* installed in manual mode
Sanitize(custom) ==
    /\ pc = "done"
    /\ req.sanitize
    /\ customOpts' = custom
    /\ Deliver(Sanitized(custom), "sanitized", nextCalls)
    /\ UNCHANGED <<opts, input, rawOptions, routes, walk, hooks>>

\* The middleware is mounted twice on the route: the request the first one
\* sanitized reaches the second one
Again ==
    /\ pc = "done"
    /\ opts.app = "null" /\ opts.router = "null"
    /\ input' = req
    /\ Deliver(Handled(req), "again", nextCalls + 1)
    /\ UNCHANGED <<opts, customOpts, rawOptions, routes, walk, hooks>>

\* The response goes out, from the route handler or from the error handling
\* of Express, and the request object is dropped; the options
\* and the RegExp objects of the patterns stay
Respond ==
    /\ pc \in {"done", "sanitized", "again", "error"}
    /\ pc' = "idle"
    /\ input' = NoRequest
    /\ req' = NoRequest
    /\ nextCalls' = 0
    /\ customOpts' = NoOptions
    /\ thrown' = NoError
    /\ UNCHANGED <<opts, lastIndex, rawOptions, routes, walk, hooks>>

-----------------------------------------------------------------------------
(* The requests and the configurations explored *)

MaxDepth == 1     \* levels of nesting around a flat mapping
MaxItems == 3     \* elements of an array
MaxStrLen == 5    \* characters of a free string value

KeySamples == {
    <<"a">>, <<"b">>, <<"$", "a">>, <<"a", "$">>, <<"a", ".", "b">>, <<"$">>,
    <<"$", "@", "a", ".", "a">> }

LeafSamples == {
    Null, Bool(FALSE), Num(0), Num(1),
    S(<<>>), S(<<"a">>), S(<<"$", "a">>), S(<<"$", "a", ".", "a">>), S(<<"$">>),
    S(<<"a", "@", "a", ".", "a">>),
    Arr(<<>>), Obj(<<>>) }

SecondEntries ==
    {Entry(k, v) : k \in {<<"a">>, <<"$", "a">>},
                   v \in {Null, S(<<"a">>), S(<<"$", "a">>)}}

\* Mappings of one or two entries with different keys, and the empty mapping
FlatMappings ==
    {Obj(<<>>)}
    \cup {Obj(<<Entry(k, v)>>) : k \in KeySamples, v \in LeafSamples}
    \cup {m \in {Obj(<<Entry(k, v), e>>) :
                      k \in KeySamples, v \in LeafSamples, e \in SecondEntries} :
              m.c[1].k # m.c[2].k}

WrapKey == <<"b">>

RECURSIVE Nested(_)
\* A flat mapping under up to d levels, each a mapping entry or an array in
\* a mapping entry
Nested(d) ==
    IF d = 0 THEN FlatMappings
    ELSE LET inner == Nested(d - 1)
         IN inner
            \cup {Obj(<<Entry(WrapKey, x)>>) : x \in inner}
            \cup {Obj(<<Entry(WrapKey, Arr(<<x>>))>>) : x \in inner}

ItemSamples == {
    Null, Bool(FALSE), Num(0), S(<<>>), S(<<"a">>), S(<<"$", "a">>),
    Obj(<<Entry(<<"a">>, S(<<"a">>))>>), Obj(<<Entry(<<"$", "a">>, S(<<"a">>))>>) }

ArrayBodies == {Obj(<<Entry(<<"a">>, Arr(items))>>) : items \in SeqsUpTo(ItemSamples, MaxItems)}

StringBodies ==
    {Obj(<<Entry(<<"a">>, S(s))>>) : s \in SeqsUpTo({"a", "A", "$", " "}, MaxStrLen)}

Requests(bodies) == {Post(<<"/">>, body) : body \in bodies}

AllowedSample == {<<"a">>, <<"b">>, <<"$", "a">>}
DeniedSample == {<<"a">>}

\* Configurations of the key and value policy of sanitizeObject
ObjectConfigs ==
    {expressMongoSanitize([removeMatches |-> rm, removeEmpty |-> re,
                           allowedKeys |-> ak, deniedKeys |-> dk]) :
        rm \in BOOLEAN, re \in BOOLEAN,
        ak \in {{}, AllowedSample}, dk \in {{}, DeniedSample}}

ArrayConfigs ==
    {expressMongoSanitize([arrayOptions |-> [filterNull |-> fn, distinct |-> di]]) :
        fn \in BOOLEAN, di \in BOOLEAN}

StringConfigs ==
    {expressMongoSanitize([replaceWith |-> rw,
                           stringOptions |-> [trim |-> tr, lowercase |-> lc,
                                              maxLength |-> ml]]) :
        rw \in {<<>>, <<"A">>}, tr \in BOOLEAN, lc \in BOOLEAN, ml \in {0, 2}}

MaxKeyLen == 3    \* characters of a free mapping key

\* Mappings of two entries with different keys, both values longer than
\* every maxLength explored
KeyBodies ==
    {Obj(<<Entry(j, S(<<"a", "A", "a">>)), Entry(k, S(<<"a", "A", "a">>))>>) :
        j, k \in SeqsUpTo({"a", "A", "$"}, MaxKeyLen) \ {<<>>}}
    \ {Obj(<<Entry(k, S(<<"a", "A", "a">>)), Entry(k, S(<<"a", "A", "a">>))>>) :
        k \in SeqsUpTo({"a", "A", "$"}, MaxKeyLen)}

KeyConfigs ==
    {expressMongoSanitize([stringOptions |-> [trim |-> FALSE, lowercase |-> lc,
                                              maxLength |-> ml]]) :
        lc \in BOOLEAN, ml \in {0, 1, 2}}

\* Request URLs: /, /a, /a?a, /a/b, /b and /b/a
Urls == {
    <<"/">>, <<"/", "a">>, <<"/", "a", "?", "a">>, <<"/", "a", "/", "b">>,
    <<"/", "b">>, <<"/", "b", "/", "a">> }

\* skipRoutes: none, ['/a'] and ['/a/:a']
SkipSamples == { {}, {<<"/", "a">>}, {<<"/", "a", "/", ":", "a">>} }

\* Sections of one entry: a string, a number, a mapping or an array
SectionSamples ==
    {Obj(<<Entry(k, v)>>) :
        k \in {<<"a">>, <<"$", "a">>, <<"A">>},
        v \in {S(<<"a">>), S(<<"$", "A">>), Num(1),
               Obj(<<Entry(<<"$", "a">>, S(<<"$", "A">>))>>),
               Arr(<<S(<<"$", "A">>)>>)}}

ModeRequests ==
    {Post(url, body) : url \in Urls, body \in SectionSamples}
    \cup {Get(url, query) : url \in Urls, query \in SectionSamples}

\* Configurations of the middleware itself
ModeConfigs ==
    {expressMongoSanitize([mode |-> m, replaceWith |-> rw, skipRoutes |-> sr,
                           customSanitizer |-> cs]) :
        m \in {"auto", "manual"}, rw \in {<<>>, <<"a">>},
        sr \in SkipSamples, cs \in {"null", "function"}}

\* Arguments of req.sanitize: none, { replaceWith: 'A' } and
\* { stringOptions: { lowercase: true } }
CustomOptsSamples == {
    NoOptions,
    [replaceWith |-> <<"A">>],
    [stringOptions |-> [trim |-> FALSE, lowercase |-> TRUE, maxLength |-> 0]] }

\* Options passed to expressMongoSanitize, of the right and of the wrong type
SetupOptions == [
    replaceWith : {S(<<>>), Num(1)},
    removeMatches : {Bool(FALSE), Bool(TRUE), Num(1), S(<<"a">>)},
    sanitizeObjects : {Arr(<<S(<<"body">>)>>), S(<<"body">>)},
    mode : {S(<<"auto">>), S(<<"manual">>), S(<<"strict">>)},
    skipRoutes : {Arr(<<>>), S(<<"/", "a">>)},
    customSanitizer : {Null, Fn, S(<<"a">>)},
    recursive : {Bool(TRUE), Null},
    removeEmpty : {Bool(FALSE), S(<<"a">>)},
    patterns : {Arr(<<Re(<<"$">>)>>), Re(<<"$">>),
                Arr(<<Re(<<"$">>), S(<<"$">>)>>),
                Arr(<<S(<<".">>), Re(<<"$">>)>>)} ]

-----------------------------------------------------------------------------
(* Specifications *)

MaxStack == 3      \* layers of the application's stack
MaxSubStack == 2   \* layers of the mounted router's stack

\* The layers of the sample applications: routes with and without
\* parameters, a body parser, and two layers that mount the same router,
\* with the regexp Express 4 builds for app.use('/a', router) and with a
\* regexp of the shape getAllRouteParams looks for; the layer self is on
\* the stack of the router and mounts the router itself (router.use(router))
Layers(stack) ==
    [home |-> RouteLayer(<<"/", "a">>),
     item |-> RouteLayer(<<"/", "a", "/", ":", "a">>),
     json |-> OtherLayer,
     list |-> RouteLayer(<<"/", "b">>),
     user |-> RouteLayer(<<"/", ":", "a">>),
     pair |-> RouteLayer(<<"/", ":", "a", "/", ":", "b">>),
     self |-> RouterLayer(<<>>, stack),
     v1 |-> RouterLayer(<<"/", "^", "\\", "/", "a", "\\", "/", "?", "(", "?", "=",
                          "\\", "/", "|", "$", ")", "/", "i">>, stack),
     v2 |-> RouterLayer(<<"/", "^", "\\", "/", "?", "\\", "/", "b",
                          "\\", "/", "?", "$", "/">>, stack)]

\* The stacks over the given layers: a layer is pushed on one stack, once
Stacks(ids, n) ==
    {stack \in SeqsUpTo(ids, n) :
        \A i, j \in 1..Len(stack) : stack[i] = stack[j] => i = j}

\* Applications with routes of their own and routes of a router that is
\* mounted never, once or twice
RouteSamples ==
    {[stack |-> stack, layers |-> Layers(sub)] :
        stack \in Stacks({"home", "item", "json", "v1", "v2"}, MaxStack),
        sub \in Stacks({"list", "user", "pair", "self"}, MaxSubStack)}

InitRoutes ==
    /\ routes \in RouteSamples
    /\ walk = StartWalk(routes.stack, DefaultValues.routerBasePath.s)
    /\ opts = DEFAULT_OPTIONS
    /\ lastIndex = [n \in 1..Len(PATTERNS) |-> 0]
    /\ pc = "idle"
    /\ input = NoRequest
    /\ req = NoRequest
    /\ nextCalls = 0
    /\ customOpts = NoOptions
    /\ rawOptions = NoOptions
    /\ thrown = NoError
    /\ hooks = NoHooks

NextRoutes ==
    \/ WalkStack
    \/ ReturnParams

\* One call of getAllRouteParams on the stack of an application
SpecRoutes == InitRoutes /\ [][NextRoutes]_vars

\* The call runs on: the while loop takes its next turn, the function returns
SpecRoutesFair == SpecRoutes /\ WF_vars(NextRoutes)

MaxTwiceLen == 3   \* characters of a string value that is sanitized twice

\* Mappings of one entry whose key and value carry blanks, capitals and '$'
TwiceBodies ==
    {Obj(<<Entry(k, v)>>) :
        k \in {<<"a">>, <<"$", "a">>, <<"A">>, <<" ", "a">>},
        v \in {S(s) : s \in SeqsUpTo({"a", "A", "$", " "}, MaxTwiceLen)}
              \cup {Num(1), Arr(<<S(<<"a", " ", "$">>)>>),
                    Obj(<<Entry(<<"$", "a">>, S(<<"$", " ", "a">>))>>)}}

\* The string options together with the key policy, without removeMatches;
\* the replacement '$a' leaves strings that the patterns match again
TwiceConfigs ==
    {expressMongoSanitize([replaceWith |-> rw, removeEmpty |-> re,
                           allowedKeys |-> ak, deniedKeys |-> dk,
                           stringOptions |-> [trim |-> tr, lowercase |-> lc,
                                              maxLength |-> ml]]) :
        rw \in {<<>>, <<"$", "a">>}, re \in BOOLEAN,
        ak \in {{}, {<<"$", "a">>, <<"A">>}}, dk \in {{}, {<<"a">>}},
        tr \in BOOLEAN, lc \in BOOLEAN, ml \in {0, 2}}

MaxReplaceLen == 3   \* characters of a string under a free replaceWith
MaxWithLen == 2      \* characters of a free replaceWith

\* String values over a letter and characters of the default patterns
ReplaceBodies ==
    {Obj(<<Entry(<<"a">>, S(s))>>) :
        s \in SeqsUpTo({"a", "$", ".", "{", "}"}, MaxReplaceLen)}

\* The default patterns and string options with every short replaceWith
ReplaceConfigs ==
    {expressMongoSanitize([replaceWith |-> rw]) :
        rw \in SeqsUpTo({"a", "$", ".", "&"}, MaxWithLen)}

MaxHooks == 4   \* param callbacks on a host after which no request is sent

\* Middlewares that were given an app, a router, both or neither
HookConfigs ==
    {expressMongoSanitize([app |-> a, router |-> r, mode |-> m]) :
        a \in {"null", "app"}, r \in {"null", "router"}, m \in {"auto", "manual"}}

\* The sample applications of at most two layers
HookApps == {r \in RouteSamples : Len(r.stack) <= 2 /\ Len(r.layers.v1.stack) <= 1}

InitWith(configs) ==
    /\ opts \in configs
    /\ lastIndex = [n \in 1..Len(PATTERNS) |-> 0]
    /\ pc = "idle"
    /\ input = NoRequest
    /\ req = NoRequest
    /\ nextCalls = 0
    /\ customOpts = NoOptions
    /\ rawOptions = NoOptions
    /\ thrown = NoError
    /\ walk = NoWalk
    /\ hooks = NoHooks

Init == InitWith(ObjectConfigs) /\ routes = NoRoutes
InitArray == InitWith(ArrayConfigs) /\ routes = NoRoutes
InitString == InitWith(StringConfigs) /\ routes = NoRoutes

Next ==
    \/ \E request \in Requests(Nested(MaxDepth)) : Middleware(request)
    \/ Respond

NextArray ==
    \/ \E request \in Requests(ArrayBodies) : Middleware(request)
    \/ Respond

NextString ==
    \/ \E request \in Requests(StringBodies) : Middleware(request)
    \/ Respond

\* Nested request bodies under { recursive: false }
SpecRecursive ==
    /\ InitWith({expressMongoSanitize([recursive |-> FALSE])}) /\ routes = NoRoutes
    /\ [][Next]_vars

\* The request body is a mapping, a JSON array or a text
NextShape ==
    \/ \E request \in Requests(ArrayBodies
                                \cup {Arr(items) : items \in SeqsUpTo(ItemSamples, MaxItems)}
                                \cup {S(<<"$", "a">>), S(<<"a">>)}) :
           Middleware(request)
    \/ Respond

\* Request bodies of every shape under the array options
SpecShape == (InitWith(ArrayConfigs) /\ routes = NoRoutes) /\ [][NextShape]_vars

\* Manual mode with and without base key lists
OverrideConfigs ==
    {expressMongoSanitize([mode |-> "manual", allowedKeys |-> ak, deniedKeys |-> dk]) :
        ak \in { {}, {<<"A">>} }, dk \in { {}, {<<"A">>} }}

\* Arguments of req.sanitize: none, { allowedKeys: ['a'] },
\* { deniedKeys: ['a'] } and { allowedKeys: ['a', 'A'], deniedKeys: ['A'] }
OverrideSamples == {
    NoOptions,
    [allowedKeys |-> << <<"a">> >>],
    [deniedKeys |-> << <<"a">> >>],
    [allowedKeys |-> << <<"a">>, <<"A">> >>, deniedKeys |-> << <<"A">> >>] }

InitOverride == InitWith(OverrideConfigs) /\ routes = NoRoutes

NextOverride ==
    \/ \E request \in {Post(<<"/">>, body) : body \in SectionSamples} :
           Middleware(request)
    \/ \E custom \in OverrideSamples : Sanitize(custom)
    \/ Respond

\* req.sanitize with key lists in its argument
SpecOverride == InitOverride /\ [][NextOverride]_vars

InitKeys == InitWith(KeyConfigs) /\ routes = NoRoutes

NextKeys ==
    \/ \E request \in Requests(KeyBodies) : Middleware(request)
    \/ Respond

\* Mapping keys under the string options
SpecKeys == InitKeys /\ [][NextKeys]_vars

InitHooks ==
    /\ InitWith(HookConfigs)
    /\ routes \in HookApps

NextHooks ==
    \/ /\ Len(hooks.app) < MaxHooks /\ Len(hooks.router) < MaxHooks
       /\ \E request \in Requests(SectionSamples) : Middleware(request)
    \/ Sanitize(NoOptions)
    \/ Respond

\* Requests to an application whose routes the middleware looks up
SpecHooks == InitHooks /\ [][NextHooks]_vars

InitTwice == InitWith(TwiceConfigs) /\ routes = NoRoutes

NextTwice ==
    \/ \E request \in Requests(TwiceBodies) : Middleware(request)
    \/ Again
    \/ Respond

\* Requests that pass the middleware twice
SpecTwice == InitTwice /\ [][NextTwice]_vars

InitReplace == InitWith(ReplaceConfigs) /\ routes = NoRoutes

NextReplace ==
    \/ \E request \in Requests(ReplaceBodies) : Middleware(request)
    \/ Respond

\* String values under the default patterns and a free replaceWith
SpecReplace == InitReplace /\ [][NextReplace]_vars

InitModes == InitWith(ModeConfigs) /\ routes = NoRoutes

NextModes ==
    \/ \E request \in ModeRequests : Middleware(request)
    \/ \E custom \in CustomOptsSamples : Sanitize(custom)
    \/ Respond

\* Auto and manual mode, skipped routes and the custom sanitizer
SpecModes == InitModes /\ [][NextModes]_vars

InitSetup ==
    /\ rawOptions \in SetupOptions
    /\ opts = DEFAULT_OPTIONS
    /\ lastIndex = [n \in 1..Len(PATTERNS) |-> 0]
    /\ pc = "setup"
    /\ input = NoRequest
    /\ req = NoRequest
    /\ nextCalls = 0
    /\ customOpts = NoOptions
    /\ thrown = NoError
    /\ routes = NoRoutes
    /\ walk = NoWalk
    /\ hooks = NoHooks

NextSetup ==
    \/ Construct
    \/ \E request \in Requests(SectionSamples) : Middleware(request)
    \/ Sanitize(NoOptions)
    \/ Respond

\* The construction of the middleware from the caller's options, and the
\* requests it handles afterwards
SpecSetup == InitSetup /\ [][NextSetup]_vars

\* Nested mappings under the key and value policies of sanitizeObject
Spec == Init /\ [][Next]_vars

\* Arrays under the array options
SpecArray == InitArray /\ [][NextArray]_vars

\* String values under the string options
SpecString == InitString /\ [][NextString]_vars

-----------------------------------------------------------------------------
(* Properties.  A request is judged when the middleware has run (pc =      *)
(* "done"): input is the request as it arrived, req the request as the     *)
(* route handler sees it.                                                  *)

RECURSIVE MappingsOf(_)
\* The mappings of a value at every depth, those inside arrays included
MappingsOf(value) ==
    IF value.t \in {"obj", "arr"}
    THEN (IF value.t = "obj" THEN {value} ELSE {})
         \cup UNION {MappingsOf(value.c[i].v) : i \in 1..Len(value.c)}
    ELSE {}

\* The keys of the mappings of a value at every depth
KeysOf(value) ==
    UNION {{m.c[i].k : i \in 1..Len(m.c)} : m \in MappingsOf(value)}

\* The characters of the alphabet that a default pattern matches
Sigils == {"$", ".", "{", "}"}

KeptChar(c) == c \notin Sigils

\* What a string is expected to become under the default options: an email
\* address stays, any other string loses its sigil characters
ExpectedString(s) == IF EmailRegexTest(s) THEN s ELSE SelectSeq(s, KeptChar)

\* Entry i is the last entry of the mapping whose key becomes this key
LastOfKey(in, i) ==
    \A j \in (i + 1)..Len(in.c) :
        ExpectedString(in.c[j].k) # ExpectedString(in.c[i].k)

RECURSIVE Renamed(_, _)
\* out is in with every key and every string value replaced by its expected
\* form at every depth, nothing dropped and nothing added; of the entries
\* whose keys become the same key, the last one gives the value
Renamed(in, out) ==
    IF in.t = "obj"
    THEN /\ out.t = "obj"
         /\ \A i \in 1..Len(in.c) : \E j \in 1..Len(out.c) :
                /\ out.c[j].k = ExpectedString(in.c[i].k)
                /\ LastOfKey(in, i) => Renamed(in.c[i].v, out.c[j].v)
         /\ \A j \in 1..Len(out.c) : \E i \in 1..Len(in.c) :
                out.c[j].k = ExpectedString(in.c[i].k)
    ELSE IF in.t = "arr"
    THEN /\ out.t = "arr"
         /\ Len(out.c) = Len(in.c)
         /\ \A i \in 1..Len(in.c) : Renamed(in.c[i].v, out.c[i].v)
    ELSE IF in.t = "str" THEN out = S(ExpectedString(in.s))
    ELSE out = in

\* C1: under the default options no key of the sanitized body, at any
\* depth and inside arrays too, begins with the sigil "$".
NoSigilKey ==
    (pc = "done" /\ opts = DEFAULT_OPTIONS)
        => \A k \in KeysOf(req.body) : k # <<>> => Head(k) # "$"

\* C2: under the default options every entry is kept at every depth of
\* mappings and arrays, its key renamed to the sanitized key and its value
\* sanitized: an entry whose key or string value holds "$" or "." is not
\* dropped.  (Of two entries whose keys sanitize to the same key the later
\* gives the value.)
SigilEntriesKeptRenamed ==
    (pc = "done" /\ opts = DEFAULT_OPTIONS) => Renamed(input.body, req.body)

\* {b: {b: "$a.a", $a: "$a"}} has become {b: {b: "aa", a: "a"}}
SigilEntriesKeptRenamedWitness ==
    /\ pc = "done" /\ opts = DEFAULT_OPTIONS
    /\ input.body = Obj(<<Entry(<<"b">>, Obj(<<
            Entry(<<"b">>, S(<<"$", "a", ".", "a">>)),
            Entry(<<"$", "a">>, S(<<"$", "a">>))>>))>>)
    /\ req.body = Obj(<<Entry(<<"b">>, Obj(<<
            Entry(<<"b">>, S(<<"a", "a">>)),
            Entry(<<"a">>, S(<<"a">>))>>))>>)

\* A string holds a character that a default pattern matches
HasSigil(s) == \E j \in 1..Len(s) : s[j] \in Sigils

\* The body of the request has an entry with this key and this value
HasEntry(body, key, val) ==
    \E j \in 1..Len(body.c) : body.c[j].k = key /\ body.c[j].v = val

\* The key policy of the options lets the key pass
KeyAdmitted(key) ==
    /\ opts.allowedKeys # {} => key \in opts.allowedKeys
    /\ key \notin opts.deniedKeys

\* C3: an email address that is the value of an entry is kept unchanged,
\* also with removeMatches; stated for the entries of the body whose key the
\* key policy admits and no pattern matches.
EmailValueKept ==
    pc = "done" =>
        \A i \in 1..Len(input.body.c) :
            (/\ isEmail(input.body.c[i].v)
             /\ KeyAdmitted(input.body.c[i].k)
             /\ ~HasSigil(input.body.c[i].k)
             /\ LastOfKey(input.body, i))
            => HasEntry(req.body, input.body.c[i].k, input.body.c[i].v)

\* C4: with removeMatches every entry whose original key matches a pattern,
\* and every entry whose string value is no email address and matches a
\* pattern, is absent from the output, whatever entries came before: each
\* entry of the sanitized body comes from an entry that matches in neither.
MatchingEntriesRemoved ==
    (pc = "done" /\ opts.removeMatches) =>
        \A j \in 1..Len(req.body.c) : \E i \in 1..Len(input.body.c) :
            /\ input.body.c[i].k = req.body.c[j].k
            /\ ~HasSigil(input.body.c[i].k)
            /\ ~(/\ isString(input.body.c[i].v)
                 /\ ~isEmail(input.body.c[i].v)
                 /\ HasSigil(input.body.c[i].v.s))

\* The values removeEmpty is documented to remove
EmptyValues == {S(<<>>), Obj(<<>>), Arr(<<>>)}

\* The falsy values removeEmpty is documented to keep
KeptFalsy == {Null, Bool(FALSE), Num(0)}

\* C5: with removeEmpty no entry of any mapping of the output has the value
\* "", {} or [], and the entries whose value is null, false or 0 are kept;
\* stated without removeMatches and for keys the key policy admits.
EmptyRemovedFalsyKept ==
    (pc = "done" /\ opts.removeEmpty /\ ~opts.removeMatches) =>
        /\ \A m \in MappingsOf(req.body) : \A j \in 1..Len(m.c) :
               m.c[j].v \notin EmptyValues
        /\ \A i \in 1..Len(input.body.c) :
               (/\ input.body.c[i].v \in KeptFalsy
                /\ KeyAdmitted(input.body.c[i].k)
                /\ ExpectedString(input.body.c[i].k) # <<>>
                /\ LastOfKey(input.body, i))
               => HasEntry(req.body, ExpectedString(input.body.c[i].k),
                           input.body.c[i].v)

RECURSIVE DerivedFrom(_, _, _)
\* Every entry of every mapping of out comes from an entry of the mapping of
\* in at the same place whose original key is one of keys: its key is the
\* sanitized form of that key, its value comes from that value
DerivedFrom(in, out, keys) ==
    IF out.t = "obj"
    THEN /\ in.t = "obj"
         /\ \A j \in 1..Len(out.c) : \E i \in 1..Len(in.c) :
                /\ in.c[i].k \in keys
                /\ out.c[j].k = ExpectedString(in.c[i].k)
                /\ DerivedFrom(in.c[i].v, out.c[j].v, keys)
    ELSE IF out.t = "arr"
    THEN /\ in.t = "arr"
         /\ Len(out.c) = Len(in.c)
         /\ \A i \in 1..Len(in.c) : DerivedFrom(in.c[i].v, out.c[i].v, keys)
    ELSE IF out.t = "str" THEN in.t = "str" /\ out.s = ExpectedString(in.s)
    ELSE out = in

\* C6: with allowedKeys non-empty every key of every mapping of the output,
\* at every depth, is the sanitized form of an input key that is a member
\* of allowedKeys: membership is decided on the original key.
AllowedKeysOnly ==
    (pc = "done" /\ opts.allowedKeys # {})
        => DerivedFrom(input.body, req.body, opts.allowedKeys)

\* Under allowedKeys {a, b, $a}, {b: {a$: "a", $a: "a"}} has become
\* {b: {a: "a"}}: a$ is dropped though it sanitizes to the allowed a
AllowedKeysOnlyWitness ==
    /\ pc = "done"
    /\ opts.allowedKeys = AllowedSample /\ opts.deniedKeys = {}
    /\ input.body = Obj(<<Entry(<<"b">>, Obj(<<
            Entry(<<"a", "$">>, S(<<"a">>)),
            Entry(<<"$", "a">>, S(<<"a">>))>>))>>)
    /\ req.body = Obj(<<Entry(<<"b">>, Obj(<<Entry(<<"a">>, S(<<"a">>))>>))>>)

\* The keys of the requests
AllKeys == KeySamples \cup {WrapKey}

\* C7 as stated: no key that is a member of deniedKeys appears in the
\* output at any depth.
DeniedKeyAbsent ==
    pc = "done" => \A k \in KeysOf(req.body) : k \notin opts.deniedKeys

\* C7 as amended: every entry whose original key is a member of deniedKeys
\* is dropped at every depth, also when the key is in allowedKeys: each
\* entry of the output comes from an entry whose original key is not denied.
DeniedEntriesDropped ==
    pc = "done"
        => DerivedFrom(input.body, req.body, AllKeys \ opts.deniedKeys)

\* With a both allowed and denied, {b: {a: "a"}} has become {b: {}}
DeniedEntriesDroppedWitness ==
    /\ pc = "done"
    /\ opts.allowedKeys = AllowedSample /\ opts.deniedKeys = DeniedSample
    /\ ~opts.removeEmpty
    /\ input.body = Obj(<<Entry(<<"b">>, Obj(<<Entry(<<"a">>, S(<<"a">>))>>))>>)
    /\ req.body = Obj(<<Entry(<<"b">>, Obj(<<>>))>>)

\* The items of the array under the key of the body, as they arrived and as
\* the route handler sees them
ArrayIn == Items(input.body.c[1].v)
ArrayOut == Items(req.body.c[1].v)

\* Two elements that are the same scalar value
SameScalar(a, b) == a.t \notin {"obj", "arr"} /\ a = b

\* The ways to find the items of the output among the items of the input
\* from left to right
Embeddings ==
    {f \in [1..Len(ArrayOut) -> 1..Len(ArrayIn)] :
        \A j \in 1..Len(ArrayOut) : \A h \in 1..(j - 1) : f[h] < f[j]}

\* Item j of the output is the sanitized form of item i of the input, and of
\* no earlier item when it is a scalar
FirstOccurrence(i, j) ==
    /\ Renamed(ArrayIn[i], ArrayOut[j])
    /\ ArrayOut[j].t \notin {"obj", "arr"}
           => \A h \in 1..(i - 1) : ~Renamed(ArrayIn[h], ArrayOut[j])

\* An item whose sanitized form is a mapping or a non-empty string
StaysTruthy(item) ==
    \/ item.t = "obj"
    \/ item.t = "str" /\ ExpectedString(item.s) # <<>>

FilterNullKeepsFalsy ==
    (pc = "done" /\ opts.arrayOptions.filterNull) =>
        \A i \in 1..Len(ArrayIn) :
            ArrayIn[i] \in {S(<<>>), Bool(FALSE), Num(0)}
                => \E j \in 1..Len(ArrayOut) : ArrayOut[j] = ArrayIn[i]

RECURSIVE RefReplace(_, _)
\* Every sigil character of the string replaced by the replacement
RefReplace(str, replacement) ==
    IF str = <<>> THEN <<>>
    ELSE (IF Head(str) \in Sigils THEN replacement ELSE <<Head(str)>>)
             \o RefReplace(Tail(str), replacement)

RECURSIVE RefTrimLeft(_)
RefTrimLeft(str) ==
    IF str # <<>> /\ Head(str) = " " THEN RefTrimLeft(Tail(str)) ELSE str

RECURSIVE RefTrimRight(_)
RefTrimRight(str) ==
    IF str # <<>> /\ str[Len(str)] = " "
    THEN RefTrimRight(SubSeq(str, 1, Len(str) - 1)) ELSE str

RECURSIVE RefLower(_)
RefLower(str) ==
    IF str = <<>> THEN <<>>
    ELSE <<IF Head(str) = "A" THEN "a" ELSE Head(str)>> \o RefLower(Tail(str))

\* The first n characters of the string
RefCut(str, n) == IF Len(str) <= n THEN str ELSE SubSeq(str, 1, n)

\* The string value of the body, as it arrived and as the handler sees it
StringIn == input.body.c[1].v.s
StringOut == req.body.c[1].v.s

\* The steps of the string options applied to the replaced string, in the
\* order trim, lowercase, maxLength
RefStringSteps(replaced) ==
    LET trimmed == IF opts.stringOptions.trim
                   THEN RefTrimRight(RefTrimLeft(replaced)) ELSE replaced
        lowered == IF opts.stringOptions.lowercase THEN RefLower(trimmed) ELSE trimmed
    IN IF opts.stringOptions.maxLength # 0
       THEN RefCut(lowered, opts.stringOptions.maxLength) ELSE lowered

\* C10: sanitizeString replaces the matches first, then trims, then lowers
\* the case, then truncates to maxLength: the characters kept are counted
\* after the matches and the surrounding whitespace are gone.
ReplaceTrimLowerCut ==
    pc = "done" =>
        StringOut = RefStringSteps(RefReplace(StringIn, opts.replaceWith))

\* " $AaA" with trim, lowercase and maxLength 2 has become "aa"
ReplaceTrimLowerCutWitness ==
    /\ pc = "done"
    /\ opts.replaceWith = <<>>
    /\ opts.stringOptions.trim /\ opts.stringOptions.lowercase
    /\ opts.stringOptions.maxLength = 2
    /\ StringIn = <<" ", "$", "A", "a", "A">>
    /\ StringOut = <<"a", "a">>

\* The sanitized form of a key: replacement, trim and lowercase, no truncation
RefKeySteps(key) ==
    LET replaced == RefReplace(key, opts.replaceWith)
        trimmed == IF opts.stringOptions.trim
                   THEN RefTrimRight(RefTrimLeft(replaced)) ELSE replaced
    IN IF opts.stringOptions.lowercase THEN RefLower(trimmed) ELSE trimmed

\* The keys of the entries of a mapping
EntryKeys(m) == {m.c[i].k : i \in 1..Len(m.c)}

\* C11: maxLength truncates string values only, never mapping keys: every
\* key of the output is the whole sanitized form of an input key, so two
\* input keys that are longer than maxLength and share their first
\* maxLength characters are two entries of the output (unless replacement
\* or lowercase alone makes them the same key), while the values are cut.
KeysNeverTruncated ==
    pc = "done" =>
        /\ EntryKeys(req.body) = {RefKeySteps(k) : k \in EntryKeys(input.body)}
        /\ Len(req.body.c) = Cardinality({RefKeySteps(k) : k \in EntryKeys(input.body)})
        /\ \A i \in 1..Len(req.body.c) :
               req.body.c[i].v.s = RefStringSteps(<<"a", "A", "a">>)

\* With maxLength 1, {aa: "aAa", aA: "aAa"} has become {aa: "a", aA: "a"}
KeysNeverTruncatedWitness ==
    /\ pc = "done"
    /\ opts.stringOptions.maxLength = 1 /\ ~opts.stringOptions.lowercase
    /\ input.body = Obj(<<Entry(<<"a", "a">>, S(<<"a", "A", "a">>)),
                          Entry(<<"a", "A">>, S(<<"a", "A", "a">>))>>)
    /\ req.body = Obj(<<Entry(<<"a", "a">>, S(<<"a">>)),
                        Entry(<<"a", "A">>, S(<<"a">>))>>)

RECURSIVE Segments(_, _)
\* The segments of a path between slashes, cur being the segment in progress
Segments(path, cur) ==
    IF path = <<>> THEN <<cur>>
    ELSE IF Head(path) = "/" THEN <<cur>> \o Segments(Tail(path), <<>>)
    ELSE Segments(Tail(path), Append(cur, Head(path)))

\* The URL without its query string
PathOf(url) ==
    LET marks == {i \in 1..Len(url) : url[i] = "?"}
    IN IF marks = {} THEN url
       ELSE SubSeq(url, 1, (CHOOSE i \in marks : \A j \in marks : i <= j) - 1)

\* The path equals the route, or matches it segment by segment, a ':param'
\* segment of the route matching any one segment
RouteMatches(route, path) ==
    LET r == Segments(route, <<>>)
        q == Segments(path, <<>>)
    IN \/ route = path
       \/ /\ Len(r) = Len(q)
          /\ \A i \in 1..Len(r) : (r[i] # <<>> /\ Head(r[i]) = ":") \/ r[i] = q[i]

\* The request is one that skipRoutes asks to pass through
SkipRouteMatches(url) == \E route \in opts.skipRoutes : RouteMatches(route, PathOf(url))

RECURSIVE RefSanitize(_, _, _)
\* The expected sanitized form of a value whose mappings have one entry:
\* every key and string with its sigils replaced, lower-cased on demand
RefSanitize(v, replacement, lower) ==
    IF v.t = "str"
    THEN S(IF lower THEN RefLower(RefReplace(v.s, replacement))
           ELSE RefReplace(v.s, replacement))
    ELSE IF v.t = "obj"
    THEN Obj([i \in 1..Len(v.c) |->
                Entry(RefSanitize(S(v.c[i].k), replacement, lower).s,
                      RefSanitize(v.c[i].v, replacement, lower))])
    ELSE IF v.t = "arr"
    THEN Arr([i \in 1..Len(v.c) |-> RefSanitize(v.c[i].v, replacement, lower)])
    ELSE v

\* The sections of the request are the sanitized sections of the input
SectionsSanitized(replacement, lower) ==
    \A name \in {"body", "params", "query"} :
        req[name] = RefSanitize(input[name], replacement, lower)

\* The sections of the request are as they arrived
SectionsUntouched ==
    \A name \in {"body", "params", "query"} : req[name] = input[name]

SkippedRoutesUntouched ==
    (pc = "done" /\ opts.mode = "auto" /\ opts.customSanitizer = "null") =>
        IF SkipRouteMatches(input.url)
        THEN SectionsUntouched
        ELSE SectionsSanitized(opts.replaceWith, opts.stringOptions.lowercase)

\* The value is not of the type the option is specified to have
WrongType(key, value) ==
    CASE key = "replaceWith" -> value.t # "str"
      [] key \in {"removeMatches", "recursive", "removeEmpty"} -> value.t # "bool"
      [] key \in {"sanitizeObjects", "skipRoutes", "patterns"} -> value.t # "arr"
      [] key = "mode" -> value \notin {S(<<"auto">>), S(<<"manual">>)}
      [] key = "customSanitizer" -> value.t \notin {"null", "function"}
      [] OTHER -> FALSE

\* C14: when an option has the wrong type (replaceWith no string,
\* removeMatches, recursive or removeEmpty no boolean, sanitizeObjects,
\* skipRoutes or patterns no list, mode neither auto nor manual,
\* customSanitizer neither null nor a function) the construction fails with
\* an error that names an offending field and the value received, and no
\* middleware is returned.
InvalidOptionsRejected ==
    (/\ pc # "setup"
     /\ \E f \in DOMAIN rawOptions : WrongType(f, rawOptions[f])) =>
        /\ pc = "failed"
        /\ thrown.type = "type_error"
        /\ thrown.key \in DOMAIN rawOptions
        /\ WrongType(thrown.key, rawOptions[thrown.key])
        /\ thrown.value = rawOptions[thrown.key]

\* C15: a patterns entry that is no regular expression is rejected when the
\* middleware is constructed: with such an entry among the options the
\* construction fails and no request is ever handled.
InvalidPatternRejected ==
    (/\ pc # "setup"
     /\ "patterns" \in DOMAIN rawOptions
     /\ \E i \in 1..Len(rawOptions.patterns.c) :
            rawOptions.patterns.c[i].v.t # "regexp") =>
        pc = "failed"

RECURSIVE Reachable(_, _)
\* The layers in the given stacks and in the stacks of the routers mounted
\* there
Reachable(ids, seen) ==
    IF ids \subseteq seen THEN seen
    ELSE Reachable(UNION {{routes.layers[id].stack[i] :
                              i \in 1..Len(routes.layers[id].stack)} : id \in ids},
                   seen \cup ids)

\* The names declared by the ':name' segments of a route's path
DeclaredIn(path) ==
    {Tail(seg) : seg \in {s \in {Segments(path, <<>>)[i] :
                                     i \in 1..Len(Segments(path, <<>>))} :
                              Len(s) > 1 /\ Head(s) = ":"}}

\* The names declared by the routes of the application and of its routers
DeclaredParams ==
    UNION {DeclaredIn(routes.layers[id].path) :
              id \in {l \in Reachable({routes.stack[i] : i \in 1..Len(routes.stack)}, {}) :
                          routes.layers[l].kind = "route"}}

\* C16: the array getAllRouteParams returns holds exactly the parameter
\* names that the routes of the application and of its mounted routers
\* declare, each of them once
RouteParamsDeclaredOnce ==
    walk.returned =>
        /\ {walk.result[i] : i \in 1..Len(walk.result)} =
               {S(name) : name \in DeclaredParams}
        /\ \A i, j \in 1..Len(walk.result) :
               walk.result[i] = walk.result[j] => i = j

\* What the customSanitizer of the test suite returns for one value of the
\* mapping it is given
SafeValue(value) ==
    IF isString(value) THEN SAFE
    ELSE IF isArray(value) THEN Arr([j \in 1..Len(value.c) |-> SAFE])
    ELSE value

\* The section holds the keys it arrived with, each with the value the
\* customSanitizer returns for it
SectionIsCustomResult(name) ==
    /\ isPlainObject(req[name])
    /\ Len(req[name].c) = Len(input[name].c)
    /\ \A i \in 1..Len(input[name].c) :
           /\ req[name].c[i].k = input[name].c[i].k
           /\ req[name].c[i].v = SafeValue(input[name].c[i].v)

\* C17: with a customSanitizer configured, a section that was sanitized
\* (by the middleware in auto mode on a route that is not skipped, or by
\* req.sanitize in manual mode) holds exactly what the function returned:
\* the keys and the nested values keep their '$' and '.', the default
\* replacement is not applied to the result
CustomSanitizerOverrides ==
    (/\ opts.customSanitizer # "null"
     /\ \/ pc = "sanitized"
        \/ pc = "done" /\ opts.mode = "auto" /\ input.url \notin opts.skipRoutes) =>
        \A name \in {"body", "query"} :
            isPlainObject(input[name]) => SectionIsCustomResult(name)

\* The body {$a: ["$A"]} has become {$a: ["SAFE"]} under a customSanitizer
CustomSanitizerOverridesWitness ==
    /\ pc = "done" /\ opts.mode = "auto" /\ opts.customSanitizer # "null"
    /\ input.body = Obj(<<Entry(<<"$", "a">>, Arr(<<S(<<"$", "A">>)>>))>>)
    /\ req.body = Obj(<<Entry(<<"$", "a">>, Arr(<<SAFE>>))>>)

\* The lastIndex of RegExp objects that were never used
Unused == [n \in DOMAIN lastIndex |-> 0]

\* C18: the sanitized request depends on the request and the options only:
\* it is what the same request gives when it is the first one the
\* middleware handles, and the request leaves no match position behind in
\* the RegExp objects of the patterns
SanitizeIsStateless ==
    pc = "done" =>
        /\ req = handleRequest(input, opts, Unused).req
        /\ lastIndex = Unused

RECURSIVE StringsOf(_)
\* The string values of a value at every depth
StringsOf(value) ==
    IF isString(value) THEN {value.s}
    ELSE UNION {StringsOf(value.c[i].v) : i \in 1..Len(value.c)}

\* No configured pattern matches the string
Clean(s) == ~SomeTest(opts.patterns, s, Unused, 1).hit

\* No configured pattern matches a key or a string value of the body
BodyClean(body) ==
    \A s \in KeysOf(body) \cup StringsOf(body) : Clean(s)

\* The string neither begins nor ends with whitespace
Trimmed(s) == s = <<>> \/ (s[1] \notin Whitespace /\ s[Len(s)] \notin Whitespace)

\* C19 as stated: without removeMatches, sanitizing a sanitized mapping
\* changes nothing when no configured pattern matches a key or a value that
\* remains in it, under every configuration of trim, lowercase and maxLength.
SanitizeTwiceSame ==
    (pc = "again" /\ ~opts.removeMatches /\ BodyClean(input.body)) =>
        req.body = input.body

\* C19 as amended: without removeMatches, sanitizing a sanitized mapping
\* changes nothing when no configured pattern matches a key or a value that
\* remains in it, every remaining key passes the key policy (allowedKeys
\* and deniedKeys are tested on the key as it arrives), and no remaining
\* string value begins or ends with whitespace when trim is set (maxLength
\* cuts after trim and can leave a blank at the end).
SanitizeTwiceSameAdmitted ==
    (/\ pc = "again" /\ ~opts.removeMatches /\ BodyClean(input.body)
     /\ \A k \in KeysOf(input.body) : KeyAdmitted(k)
     /\ opts.stringOptions.trim => \A s \in StringsOf(input.body) : Trimmed(s)) =>
        req.body = input.body

\* Under trim, lowercase and maxLength 2 with allowedKeys, the sanitized
\* body {A: "aa"} has passed the middleware a second time
SanitizeTwiceSameAdmittedWitness ==
    /\ pc = "again"
    /\ opts.stringOptions = [trim |-> TRUE, lowercase |-> FALSE, maxLength |-> 2]
    /\ opts.allowedKeys # {}
    /\ input.body = Obj(<<Entry(<<"A">>, S(<<"a", "a">>))>>)
    /\ req.body = input.body

\* C20: under the default patterns the one-pass replace over the
\* alternation of all patterns gives the string that replacing pattern by
\* pattern in the configured order gives (the reference), for every string
\* and every replaceWith
CombinedEqualsSequential ==
    (pc = "done" /\ isString(input.body.c[1].v)) =>
        req.body.c[1].v.s =
            SequentialReplace(opts.patterns, input.body.c[1].v.s, opts.replaceWith, 1)

\* C21: getAllRouteParams returns on every route tree, also when a router
\* is mounted twice or on its own stack
RouteWalkTerminates == <>walk.returned

\* The walk of an application whose router is mounted twice and holds a
\* layer that mounts the router itself has returned
RouteWalkTerminatesWitness ==
    /\ walk.returned
    /\ \E i, j \in 1..Len(routes.stack) :
           routes.stack[i] = "v1" /\ routes.stack[j] = "v2"
    /\ \E i \in 1..Len(routes.layers.v1.stack) : routes.layers.v1.stack[i] = "self"

\* The number of param callbacks registered on a host for a name
Callbacks(registered, name) ==
    Cardinality({i \in 1..Len(registered) : registered[i] = name})

\* The array getAllRouteParams returns for the application
Discovered ==
    getAllRouteParams(StartWalk(routes.stack, DefaultValues.routerBasePath.s),
                      routes.layers)

\* C22: discovery and registration happen once: whenever a request has been
\* handled, the app the middleware was given holds exactly one param
\* callback of the middleware per discovered parameter name
HooksRegisteredOnce ==
    (pc = "done" /\ opts.app # "null") =>
        \A i \in 1..Len(Discovered) : Callbacks(hooks.app, Discovered[i]) = 1

\* C23: a middleware that was given no app or no router raises for no
\* request: the request is handled, next is called, the path parameters are
\* as they arrived and in auto mode the other sections are sanitized
MissingInstanceTolerated ==
    (opts.app = "null" \/ opts.router = "null") =>
        /\ pc # "error"
        /\ pc = "done" =>
               /\ nextCalls = 1
               /\ req.params = input.params
               /\ opts.mode = "auto" =>
                      SectionsSanitized(opts.replaceWith, opts.stringOptions.lowercase)

\* C24: with recursive: false a mapping that is the value of an entry of
\* the body is left exactly as it arrived, while the strings of the first
\* level are sanitized; stated for the entries whose key no pattern matches
\* and no other entry is renamed to.
NestedMappingsUntouched ==
    (pc = "done" /\ ~opts.recursive) =>
        \A i \in 1..Len(input.body.c) :
            (/\ ~HasSigil(input.body.c[i].k)
             /\ \A j \in 1..Len(input.body.c) : HasSigil(input.body.c[j].k) => j = i) =>
                /\ isPlainObject(input.body.c[i].v) =>
                       HasEntry(req.body, input.body.c[i].k, input.body.c[i].v)
                /\ isString(input.body.c[i].v) =>
                       HasEntry(req.body, input.body.c[i].k,
                                S(ExpectedString(input.body.c[i].v.s)))

\* C25: the middleware never assigns to req.query or req.params: the
\* section object the host made stays in place and takes the sanitized
\* entries; only other sections, such as the body, get a new object
QueryParamsKeepIdentity ==
    req.assigned \cap {"query", "params"} = {}

\* C26: with distinct no two elements of a sanitized array are equal,
\* mappings and arrays being compared by their contents
DistinctByContents ==
    (pc = "done" /\ opts.arrayOptions.distinct) =>
        \A i, j \in 1..Len(req.body.c[1].v.c) :
            req.body.c[1].v.c[i].v = req.body.c[1].v.c[j].v => i = j

\* C27: the sanitized body has the shape of the body that arrived: a
\* mapping stays a mapping, an array an array and a string a string
SectionKeepsShape ==
    pc = "done" =>
        /\ isPlainObject(input.body) => isPlainObject(req.body)
        /\ isArray(input.body) => isArray(req.body)
        /\ isString(input.body) => isString(req.body)

\* C28: a call req.sanitize(customOpts) whose customOpts holds allowedKeys or
\* deniedKeys as a list returns without an error, and the lists filter the
\* keys: an entry of the body whose key is missing from the allowedKeys list,
\* or is in the deniedKeys list, is gone from the sanitized body.
OverrideListsFilterKeys ==
    (/\ pc \in {"sanitized", "error"}
     /\ {"allowedKeys", "deniedKeys"} \cap DOMAIN customOpts # {}) =>
        /\ pc = "sanitized"
        /\ \A i \in 1..Len(input.body.c) :
               (\/ /\ "allowedKeys" \in DOMAIN customOpts
                   /\ input.body.c[i].k \notin OverKeys(opts, customOpts, "allowedKeys")
                \/ /\ "deniedKeys" \in DOMAIN customOpts
                   /\ input.body.c[i].k \in OverKeys(opts, customOpts, "deniedKeys"))
               => Len(req.body.c) < Len(input.body.c)

\* C29: when two entries of one mapping have different keys that sanitize to
\* the same key, the sanitized mapping has one entry under that key, and its
\* value is the sanitized value of the later of the two entries.  Stated
\* under the default options for the mapping that is the body.
CollidingKeysLastWins ==
    (pc = "done" /\ opts = DEFAULT_OPTIONS /\ input.body.t = "obj") =>
        \A i, j \in 1..Len(input.body.c) :
            (/\ i < j
             /\ input.body.c[i].k # input.body.c[j].k
             /\ ExpectedString(input.body.c[i].k) = ExpectedString(input.body.c[j].k)
             /\ LastOfKey(input.body, j)) =>
                /\ Cardinality({n \in 1..Len(req.body.c) :
                       req.body.c[n].k = ExpectedString(input.body.c[j].k)}) = 1
                /\ \A n \in 1..Len(req.body.c) :
                       req.body.c[n].k = ExpectedString(input.body.c[j].k)
                           => Renamed(input.body.c[j].v, req.body.c[n].v)

\* Two entries collided and the value of the earlier one is gone
CollidingKeysLastWinsWitness ==
    /\ pc = "done" /\ opts = DEFAULT_OPTIONS /\ input.body.t = "obj"
    /\ Len(input.body.c) = 2 /\ Len(req.body.c) = 1
    /\ input.body.c[1].k # input.body.c[2].k
    /\ ExpectedString(input.body.c[1].k) = req.body.c[1].k
    /\ ExpectedString(input.body.c[2].k) = req.body.c[1].k
    /\ Renamed(input.body.c[2].v, req.body.c[1].v)
    /\ ~Renamed(input.body.c[1].v, req.body.c[1].v)

\* C30: when the middleware has handled a request it has called next once:
\* for a skipped route with the request as it arrived, in auto mode with
\* the sections sanitized, in manual mode with req.sanitize installed; it
\* has never called next twice, and it has not ended without calling next.
NextCalledOnce ==
    /\ nextCalls <= 1
    /\ pc \in {"done", "error"} => nextCalls = 1
    /\ (pc = "done" /\ input.url \in opts.skipRoutes) =>
           SectionsUntouched /\ ~req.sanitize
    /\ (pc = "done" /\ input.url \notin opts.skipRoutes /\ opts.mode = "manual") =>
           req.sanitize
    /\ (/\ pc = "done" /\ input.url \notin opts.skipRoutes /\ opts.mode = "auto"
        /\ opts.customSanitizer = "null") =>
           SectionsSanitized(opts.replaceWith, opts.stringOptions.lowercase)

====
